---- MODULE Spec2Model ----
(***************************************************************************)
(* L7RTCP PoC server: the in-memory transmission store (app/storage.py),   *)
(* the session model (app/models.py) and the four request handlers         *)
(* (app/handlers.py), as a state machine.                                  *)
(*                                                                         *)
(* Granularity.  A request handler is a coroutine.  Every                  *)
(* "await storage.<op>()" is a scheduling point: the handler first waits   *)
(* for the store's single lock, then runs the body of the store operation  *)
(* while it holds the lock, releases it and continues with its own code    *)
(* up to the next await.  Each of these is one step of the model:          *)
(*    Acquire  -  "async with self._lock" entered                          *)
(*    Get/Create/Update  -  body of the store operation, lock released     *)
(*    ...Handle -  the handler's own code between two awaits               *)
(* A request that arrives while the lock is free enters its first store    *)
(* call at once; one that arrives while the lock is held waits for it.     *)
(* A response is observed in the state right after the step that sends    *)
(* it (variable out) and has left before the next step.                    *)
(* Objects are held by reference (storage.get returns the stored object    *)
(* itself), so the model keeps a heap of TransmissionState objects; the    *)
(* store and the handlers' local variables hold heap addresses.            *)
(***************************************************************************)
EXTENDS Integers, Sequences, FiniteSets, TLC

VARIABLES
    now,        \* the clock read by time.time(), in whole seconds
    heap,       \* sequence of TransmissionState objects; an address is an index
    store,      \* InMemoryTransmissionStorage._store: id -> heap address
    lock,       \* InMemoryTransmissionStorage._lock: NoTask (free) or the holder
    tasks,      \* the request-handling tasks: request, position, locals
    out,        \* the response on its way out, with the request it answers
    requested,  \* history: heap address -> the feature list of the creating request
    expired     \* history: the ids on which a chunk exchange was answered 410

vars == <<now, heap, store, lock, tasks, out, requested, expired>>

\* ---------------------------------------------------------------- bounds
MaxTime == 2      \* the clock's horizon where a TTL has to run out
ShortTime == 1    \* the clock's horizon elsewhere
MaxObjs == 2      \* TransmissionState objects ever constructed

\* The request-handling tasks.
Tasks == {1, 2}

NoTask == 0

\* ------------------------------------------------------- Optional[...] values
None == <<>>
Some(v) == <<v>>

\* Python truthiness of an Optional[int]: None and 0 are both false.
Truthy(o) == o # None /\ o[1] # 0

\* ------------------------------------------------------------ program constants
DefaultChunkSize == 4096

FeatureToggle ==
    {"core", "resend", "ttl", "backpressure", "multistream", "pull",
     "pause", "stateless", "fec", "metrics"}

supported_features_for_poc == {"resend", "ttl", "multistream", "pull"}

SessionTypes == {"stateful", "stateless"}

NoRef == 0

\* ------------------------------------------------------------- small helpers
SeqToSet(s) == {s[i] : i \in 1..Len(s)}

RECURSIVE SortedSeq(_)
\* sorted(list(S)): the ascending list of the elements of a set of integers
SortedSeq(S) ==
    IF S = {} THEN <<>>
    ELSE LET m == CHOOSE x \in S : \A y \in S : x <= y
         IN  <<m>> \o SortedSeq(S \ {m})

SetMax(S) == CHOOSE x \in S : \A y \in S : y <= x

\* A response: HTTP status code, a tag for the detail/content, and the data
\* carried (headers or JSON body).
Response(code, detail, data) == [code |-> code, detail |-> detail, data |-> data]

HTTPException(code, detail) == Response(code, detail, <<>>)

NoResponse == Response(0, "", <<>>)

\* ------------------------------------------------------------ header parsing
\* The header value is modelled after split(',') and strip(): a sequence of
\* tokens.  Empty tokens are dropped; a token that is no FeatureToggle value
\* raises HTTP 400.
parse_features(toks) ==
    LET kept == SelectSeq(toks, LAMBDA f : f # "")
    IN  [err |-> \E i \in 1..Len(kept) : kept[i] \notin FeatureToggle,
         val |-> kept]

\* None or an empty header gives []; empty tokens are dropped.
parse_streams(hdr) ==
    IF hdr = None THEN <<>> ELSE SelectSeq(hdr[1], LAMBDA s : s # "")

\* ------------------------------------------------------------------ models.py
StreamState(sid) == [id |-> sid, received_chunks |-> {}, total_chunks |-> None]

TransmissionState(id, client, streams, feats, ttl, t, stype, mps, cs) ==
    [id |-> id, client_id |-> client, streams |-> streams,
     features_enabled |-> feats, ttl_seconds |-> ttl,
     created_at |-> t, last_received_time |-> t,
     session_type |-> stype, max_packet_size |-> mps, chunk_size |-> cs]

\* StreamStatus with the gaps counted from 1 instead of 0.
StreamStatusFromOne(st) ==
    LET received_list == SortedSeq(st.received_chunks)
        max_received  == IF received_list # <<>>
                         THEN SetMax(SeqToSet(received_list)) ELSE -1
        missing_list  == IF max_received >= 0
                         THEN SortedSeq((1..max_received) \ st.received_chunks)
                         ELSE <<>>
    IN  [received |-> received_list, missing |-> missing_list,
         total |-> st.total_chunks]

\* One entry of status_streams in get_status.
StreamStatus(st) ==
    LET received_list == SortedSeq(st.received_chunks)
        max_received  == IF received_list # <<>>
                         THEN SetMax(SeqToSet(received_list)) ELSE -1
        missing_list  == IF max_received >= 0
                         THEN SortedSeq((0..max_received) \ st.received_chunks)
                         ELSE <<>>
    IN  [received |-> received_list, missing |-> missing_list,
         total |-> st.total_chunks]

\* The TTL check of get_status at clock value t.
StatusAlive(obj, t) ==
    IF Truthy(obj.ttl_seconds)
    THEN (t - obj.created_at) <= obj.ttl_seconds[1]
    ELSE TRUE

get_status(obj, t) ==
    [transmission_id |-> obj.id,
     streams |-> [sid \in DOMAIN obj.streams |-> StreamStatus(obj.streams[sid])],
     ttl |-> IF Truthy(obj.ttl_seconds) THEN obj.ttl_seconds ELSE None,
     alive |-> StatusAlive(obj, t),
     last_received_time |-> obj.last_received_time]

\* ------------------------------------------------------------------ storage.py
\* self._store.get(transmission_id): the stored object itself, or None (NoRef).
StoreGet(st, id) == IF id \in DOMAIN st THEN st[id] ELSE NoRef

\* StoreCreate that keeps the entry already stored under the id.
StoreCreateIfAbsent(st, id, ref) ==
    [k \in DOMAIN st \cup {id} |-> IF k \in DOMAIN st THEN st[k] ELSE ref]

\* create: self._store[transmission.id] = transmission, whatever was there.
StoreCreate(st, id, ref) ==
    [k \in DOMAIN st \cup {id} |-> IF k = id THEN ref ELSE st[k]]

\* update: replaces the entry only when the id is in the store.
StoreUpdate(st, id, ref) ==
    IF id \in DOMAIN st THEN [st EXCEPT ![id] = ref] ELSE st

\* ------------------------------------------------------------- task records
\* op, id and req are the request; pc is the handler's position; ref,
\* chunk_size and tnow are its locals.  late is history: the request is a
\* chunk exchange that arrived after an exchange on its id was answered 410.
IdleTask ==
    [op |-> "none", pc |-> "idle", id |-> None, req |-> <<>>,
     ref |-> NoRef, chunk_size |-> 0, tnow |-> 0, late |-> FALSE]

\* A request that has arrived and runs up to its first await.
NewTask(op, id, req) ==
    [op |-> op, pc |-> "get_acq", id |-> id, req |-> req,
     ref |-> NoRef, chunk_size |-> 0, tnow |-> 0, late |-> FALSE]

\* What a finished request leaves behind: the request, the object the handler
\* worked on, the clock value its TTL check read (0 if it made none), and the
\* response.
Answer(task, at, resp) ==
    [op |-> task.op, id |-> task.id, req |-> task.req,
     ref |-> task.ref, at |-> at, resp |-> resp]

NoAnswer == Answer(IdleTask, 0, NoResponse)

\* The store call a waiting task enters when it gets the lock.
Entered(pc) ==
    CASE pc = "get_acq"    -> "get"
      [] pc = "create_acq" -> "create"
      [] pc = "update_acq" -> "update"

\* A request arrives as task t and comes to its first store call: it enters
\* it if the lock is free and waits for the lock otherwise.
Begin(t, task) ==
    /\ tasks' = [tasks EXCEPT ![t] =
            IF lock = NoTask THEN [task EXCEPT !.pc = Entered(task.pc)] ELSE task]
    /\ lock' = IF lock = NoTask THEN t ELSE lock

\* No response is on its way out.
Quiet == out = NoAnswer

\* The response sent last has left the server.
Respond ==
    /\ out # NoAnswer
    /\ out' = NoAnswer
    /\ UNCHANGED <<now, heap, store, lock, tasks, requested, expired>>

\* The handler of task t returns (or raises): the response is sent and the
\* task is free for the next request.
Finish(t, task, at, resp) ==
    /\ tasks' = [tasks EXCEPT ![t] = IdleTask]
    /\ out' = Answer(task, at, resp)

\* generate_uuid7(): a fresh identifier, later than every one generated before.
generate_uuid7 == 100 + Len(heap) + 1

\* Inits in flight that may still construct a TransmissionState: their
\* storage.get has not returned and their id is not in the store, or it has
\* returned None.
MayAllocate ==
    {u \in Tasks :
        /\ tasks[u].op = "init"
        /\ \/ /\ tasks[u].pc \in {"get_acq", "get"}
              /\ tasks[u].id[1] \notin DOMAIN store
           \/ tasks[u].pc = "handle" /\ tasks[u].ref = NoRef}

\* An init with this id and request may construct a TransmissionState: it
\* passes the header checks and its id is absent or not in the store.
MayCreate(id, req) ==
    /\ ~parse_features(req.features).err
    /\ req.session_type \in SessionTypes
    /\ id = None \/ id[1] \notin DOMAIN store

\* ------------------------------------------------------ init_transmission
\* NegotiateFeatures with every requested feature enabled.
NegotiateFeaturesAll(features_supported) ==
    <<"core">> \o features_supported

\* Step 4 of init_transmission: core, then every requested feature that is in
\* supported_features_for_poc, in request order.
NegotiateFeatures(features_supported) ==
    <<"core">> \o SelectSeq(features_supported,
                            LAMBDA f : f \in supported_features_for_poc)

\* Step 5: one empty StreamState per requested stream.
StreamStates(streams_requested) ==
    [sid \in SeqToSet(streams_requested) |-> StreamState(sid)]

\* Step 6, new transmission: the object handed to storage.create.
NewTransmission(id, req, t) ==
    TransmissionState(id, req.client,
                      StreamStates(parse_streams(req.streams)),
                      NegotiateFeatures(parse_features(req.features).val),
                      req.ttl, t, req.session_type,
                      req.max_packet_size, req.chunk_size)

\* Step 7: the response headers.  X-Features-Enabled is built from the local
\* features_enabled of this request, the optional headers from the session.
InitResponse(req, obj) ==
    Response(200, "init",
        [transmission_id |-> obj.id,
         features_enabled |-> NegotiateFeatures(parse_features(req.features).val),
         accepted_streams |-> IF parse_streams(req.streams) # <<>>
                              THEN Some(parse_streams(req.streams)) ELSE None,
         ttl |-> IF Truthy(obj.ttl_seconds) THEN obj.ttl_seconds ELSE None,
         max_packet_size |-> IF Truthy(obj.max_packet_size)
                             THEN obj.max_packet_size ELSE None,
         chunk_size |-> IF Truthy(obj.chunk_size) THEN obj.chunk_size ELSE None])

\* The request arrives; steps 1-3 up to the first await.  Without an
\* X-Transmission-ID the handler generates one and goes on, without any get,
\* to construct the session and await storage.create.
StartInit(t, id, req) ==
    /\ Quiet
    /\ tasks[t].pc = "idle"
    /\ MayCreate(id, req) => Len(heap) + Cardinality(MayAllocate) < MaxObjs
    /\ IF parse_features(req.features).err
       THEN /\ Finish(t, NewTask("init", id, req), 0, HTTPException(400, "feature"))
            /\ UNCHANGED <<heap, requested, lock>>
       ELSE IF req.session_type \notin SessionTypes
       THEN /\ Finish(t, NewTask("init", id, req), 0,
                      HTTPException(400, "session_type"))
            /\ UNCHANGED <<heap, requested, lock>>
       ELSE IF id = None
       THEN /\ heap' = Append(heap, NewTransmission(generate_uuid7, req, now))
            /\ requested' = Append(requested, parse_features(req.features).val)
            /\ Begin(t, [NewTask("init", Some(generate_uuid7), req)
                             EXCEPT !.pc = "create_acq", !.ref = Len(heap) + 1])
            /\ UNCHANGED out
       ELSE /\ Begin(t, NewTask("init", id, req))
            /\ UNCHANGED <<heap, requested, out>>
    /\ UNCHANGED <<now, store, expired>>

\* Steps 4-6 after storage.get returned: construct a new session, or refresh
\* last_received_time of the existing one (through the reference).
InitHandle(t) ==
    /\ Quiet
    /\ tasks[t].op = "init" /\ tasks[t].pc = "handle"
    /\ IF tasks[t].ref = NoRef
       THEN /\ heap' = Append(heap, NewTransmission(tasks[t].id[1], tasks[t].req, now))
            /\ requested' = Append(requested, parse_features(tasks[t].req.features).val)
            /\ tasks' = [tasks EXCEPT ![t].pc = "create_acq", ![t].ref = Len(heap) + 1]
       ELSE /\ heap' = [heap EXCEPT ![tasks[t].ref].last_received_time = now]
            /\ tasks' = [tasks EXCEPT ![t].pc = "update_acq"]
            /\ UNCHANGED requested
    /\ UNCHANGED <<now, store, lock, out, expired>>

\* --------------------------------------------------------- transmit_chunk
\* The TTL check of transmit_chunk at clock value t.
TransmitExpired(obj, t) ==
    /\ Truthy(obj.ttl_seconds)
    /\ (t - obj.created_at) > obj.ttl_seconds[1]

\* chunk_size = transmission_state.chunk_size or 4096, cut down to
\* max_packet_size when that is set (truthy) and smaller.
EffectiveChunkSize(obj) ==
    LET chunk_size == IF Truthy(obj.chunk_size)
                      THEN obj.chunk_size[1] ELSE DefaultChunkSize
    IN  IF Truthy(obj.max_packet_size) /\ chunk_size > obj.max_packet_size[1]
        THEN obj.max_packet_size[1]
        ELSE chunk_size

\* len(b"A" * n): a bytes object repeated n <= 0 times is empty.
FakeDataLen(n) == IF n > 0 THEN n ELSE 0

\* RecordChunk with the received set overwritten instead of extended.
RecordChunkOverwrite(obj, sid, pid, t) ==
    [obj EXCEPT !.streams[sid].received_chunks = {pid},
                !.last_received_time = t]

\* Step 4 of the chunk scenario: the chunk is marked and the activity time set,
\* on the object the handler got from the store.
RecordChunk(obj, sid, pid, t) ==
    [obj EXCEPT !.streams[sid].received_chunks = @ \cup {pid},
                !.last_received_time = t]

\* StreamControl with the directive counted as activity on the session.
StreamControlTouch(obj, directive, t) ==
    [obj EXCEPT !.last_received_time = t]

\* Scenario 1, stream control: the directive is printed and acknowledged; the
\* session object is left as it is.
StreamControl(obj, directive, t) ==
    obj

\* ChunkScenario with the chunk recorded before the TTL is checked.
ChunkScenarioRecordFirst(obj, req, t) ==
    IF req.stream_id[1] \notin DOMAIN obj.streams
    THEN [obj |-> obj, at |-> 0, resp |-> HTTPException(400, "stream_not_found")]
    ELSE IF TransmitExpired(obj, t)
    THEN [obj |-> RecordChunk(obj, req.stream_id[1], req.packet_id[1], t),
          at |-> t, resp |-> HTTPException(410, "expired")]
    ELSE [obj |-> RecordChunk(obj, req.stream_id[1], req.packet_id[1], t),
          at |-> t, resp |-> NoResponse]

\* ChunkScenario with the TTL checked before the stream is looked up.
ChunkScenarioExpiryFirst(obj, req, t) ==
    IF TransmitExpired(obj, t)
    THEN [obj |-> obj, at |-> t, resp |-> HTTPException(410, "expired")]
    ELSE IF req.stream_id[1] \notin DOMAIN obj.streams
    THEN [obj |-> obj, at |-> 0, resp |-> HTTPException(400, "stream_not_found")]
    ELSE [obj |-> RecordChunk(obj, req.stream_id[1], req.packet_id[1], t),
          at |-> t, resp |-> NoResponse]

\* Scenario 1 up to the recording of the chunk, at clock value t: the stream
\* check, then the TTL check, then the recording.  The result is the session
\* object afterwards and the error raised, if any.
ChunkScenario(obj, req, t) ==
    IF req.stream_id[1] \notin DOMAIN obj.streams
    THEN [obj |-> obj, at |-> 0, resp |-> HTTPException(400, "stream_not_found")]
    ELSE IF TransmitExpired(obj, t)
    THEN [obj |-> obj, at |-> t, resp |-> HTTPException(410, "expired")]
    ELSE [obj |-> RecordChunk(obj, req.stream_id[1], req.packet_id[1], t),
          at |-> t, resp |-> NoResponse]

\* Scenario 3: the names put into the "Missing: ..." detail.
MissingParts(req) ==
    IF req.stream_id = None /\ req.packet_id = None /\ req.stream_control = None
    THEN <<"either (X-Stream-ID and X-Packet-ID) or (X-Stream-Control)">>
    ELSE (IF req.stream_id = None THEN <<"X-Stream-ID">> ELSE <<>>)
         \o (IF req.packet_id = None THEN <<"X-Packet-ID">> ELSE <<>>)

ChunkResponse(chunk_size) ==
    Response(209, "chunk",
             [backpressure |-> "low", content_length |-> FakeDataLen(chunk_size)])

StartTransmit(t, id, req) ==
    /\ Quiet
    /\ tasks[t].pc = "idle"
    /\ Begin(t, [NewTask("transmit", Some(id), req)
                     EXCEPT !.late = /\ req.stream_control = None
                                     /\ req.stream_id # None /\ req.packet_id # None
                                     /\ id \in expired])
    /\ UNCHANGED <<now, heap, store, out, requested, expired>>

\* The handler's code after storage.get returned, up to storage.update.
TransmitHandle(t) ==
    /\ Quiet
    /\ tasks[t].op = "transmit" /\ tasks[t].pc = "handle"
    /\ LET task == tasks[t]
           req  == task.req
           ref  == task.ref
       IN  IF ref = NoRef
           THEN /\ Finish(t, task, 0, HTTPException(404, "not_found"))
                /\ UNCHANGED heap
           ELSE IF req.stream_control # None
           THEN /\ Finish(t, task, 0,
                          Response(200, "stream_control", [backpressure |-> "low"]))
                /\ heap' = [heap EXCEPT ![ref] =
                               StreamControl(@, req.stream_control[1], now)]
           ELSE IF req.stream_id # None /\ req.packet_id # None
           THEN LET r == ChunkScenario(heap[ref], req, now)
                IN  /\ heap' = [heap EXCEPT ![ref] = r.obj]
                    /\ IF r.resp = NoResponse
                       THEN /\ tasks' = [tasks EXCEPT ![t].pc = "update_acq",
                                                     ![t].tnow = now,
                                                     ![t].chunk_size =
                                                         EffectiveChunkSize(heap[ref])]
                            /\ UNCHANGED out
                       ELSE Finish(t, task, r.at, r.resp)
           ELSE /\ Finish(t, task, 0,
                          Response(400, "invalid_headers", MissingParts(req)))
                /\ UNCHANGED heap
    /\ expired' = IF out'.resp.code = 410 THEN expired \cup {tasks[t].id[1]}
                                          ELSE expired
    /\ UNCHANGED <<now, store, lock, requested>>

\* ------------------------------------------------ get_transmission_status
StartStatus(t, id) ==
    /\ Quiet
    /\ tasks[t].pc = "idle"
    /\ Begin(t, NewTask("status", Some(id), <<>>))
    /\ UNCHANGED <<now, heap, store, out, requested, expired>>

StatusHandle(t) ==
    /\ Quiet
    /\ tasks[t].op = "status" /\ tasks[t].pc = "handle"
    /\ IF tasks[t].ref = NoRef
       THEN Finish(t, tasks[t], 0, HTTPException(404, "not_found"))
       ELSE Finish(t, tasks[t], now,
                   Response(200, "status", get_status(heap[tasks[t].ref], now)))
    /\ UNCHANGED <<now, heap, store, lock, requested, expired>>

\* ------------------------------------------------------------ resend_chunks
StartResend(t, id, req) ==
    /\ Quiet
    /\ tasks[t].pc = "idle"
    /\ Begin(t, NewTask("resend", Some(id), req))
    /\ UNCHANGED <<now, heap, store, out, requested, expired>>

\* ResendResult with the chunk list queued in ascending order, each number once.
ResendResultSorted(declared, req) ==
    IF req.stream \notin declared
    THEN HTTPException(400, "stream_not_found")
    ELSE Response(200, "resend",
                  [message |-> "Resend request accepted",
                   chunks_queued |-> SortedSeq(SeqToSet(req.chunks))])

\* Steps 2-3 of resend_chunks, on the streams of the session found.
ResendResult(declared, req) ==
    IF req.stream \notin declared
    THEN HTTPException(400, "stream_not_found")
    ELSE Response(200, "resend",
                  [message |-> "Resend request accepted",
                   chunks_queued |-> req.chunks])

ResendHandle(t) ==
    /\ Quiet
    /\ tasks[t].op = "resend" /\ tasks[t].pc = "handle"
    /\ IF tasks[t].ref = NoRef
       THEN Finish(t, tasks[t], 0, HTTPException(404, "not_found"))
       ELSE Finish(t, tasks[t], 0,
                   ResendResult(DOMAIN heap[tasks[t].ref].streams, tasks[t].req))
    /\ UNCHANGED <<now, heap, store, lock, requested, expired>>

\* -------------------------------------------- the store's lock and bodies
\* "async with self._lock": entered only when no task holds the lock.
Acquire(t) ==
    /\ Quiet
    /\ tasks[t].pc \in {"get_acq", "create_acq", "update_acq"}
    /\ lock = NoTask
    /\ lock' = t
    /\ tasks' = [tasks EXCEPT ![t].pc = Entered(tasks[t].pc)]
    /\ UNCHANGED <<now, heap, store, out, requested, expired>>

\* storage.get: the reference in the store is returned, the lock released.
Get(t) ==
    /\ Quiet
    /\ tasks[t].pc = "get" /\ lock = t
    /\ tasks' = [tasks EXCEPT ![t].ref = StoreGet(store, tasks[t].id[1]),
                             ![t].pc = "handle"]
    /\ lock' = NoTask
    /\ UNCHANGED <<now, heap, store, out, requested, expired>>

\* storage.create, then step 7 of init_transmission.
Create(t) ==
    /\ Quiet
    /\ tasks[t].pc = "create" /\ lock = t
    /\ store' = StoreCreate(store, heap[tasks[t].ref].id, tasks[t].ref)
    /\ lock' = NoTask
    /\ Finish(t, tasks[t], 0, InitResponse(tasks[t].req, heap[tasks[t].ref]))
    /\ UNCHANGED <<now, heap, requested, expired>>

\* storage.update (its result is ignored by both callers), then the response
\* of init_transmission (resumption) or of transmit_chunk (chunk sent).
Update(t) ==
    /\ Quiet
    /\ tasks[t].pc = "update" /\ lock = t
    /\ store' = StoreUpdate(store, heap[tasks[t].ref].id, tasks[t].ref)
    /\ lock' = NoTask
    /\ IF tasks[t].op = "init"
       THEN Finish(t, tasks[t], 0, InitResponse(tasks[t].req, heap[tasks[t].ref]))
       ELSE Finish(t, tasks[t], tasks[t].tnow, ChunkResponse(tasks[t].chunk_size))
    /\ UNCHANGED <<now, heap, requested, expired>>

\* Time passes: the clock read by time.time() moves on, up to the horizon.
Tick(horizon) ==
    /\ Quiet
    /\ now < horizon
    /\ now' = now + 1
    /\ UNCHANGED <<heap, store, lock, tasks, out, requested, expired>>

\* ------------------------------------------------------------ initial state
\* The module-level "storage = InMemoryTransmissionStorage()": an empty store,
\* a free lock; no request is being handled and none has been answered.
Init ==
    /\ now = 0
    /\ heap = <<>>
    /\ store = [k \in {} |-> NoRef]
    /\ lock = NoTask
    /\ tasks = [t \in Tasks |-> IdleTask]
    /\ out = NoAnswer
    /\ requested = <<>>
    /\ expired = {}

\* ------------------------------------------------------------ next-state
\* The steps of a request in flight.
Step(t) ==
    \/ Acquire(t)
    \/ Get(t)
    \/ InitHandle(t)
    \/ TransmitHandle(t)
    \/ StatusHandle(t)
    \/ ResendHandle(t)
    \/ Create(t)
    \/ Update(t)

\* The requests that arrive, drawn from the input sets D.
Arrive(t, D) ==
    \/ \E id \in D.init_ids, req \in D.init_reqs : StartInit(t, id, req)
    \/ \E id \in D.ids, req \in D.transmit_reqs : StartTransmit(t, id, req)
    \/ \E id \in D.ids : StartStatus(t, id)
    \/ \E id \in D.ids, req \in D.resend_reqs : StartResend(t, id, req)

InitReqs(feats, types, streams, ttls, mpss, css) ==
    [client : {"c1"}, features : feats, session_type : types, streams : streams,
     ttl : ttls, max_packet_size : mpss, chunk_size : css]

TransmitReqs(sids, pids, ctls) ==
    [stream_id : sids, packet_id : pids, stream_control : ctls]

ResendReqs(sids, lists) == [stream : sids, chunks : lists]

\* The behaviours over the input sets D.
NextOver(D) ==
    \/ Respond
    \/ Tick(D.horizon)
    \/ \E t \in Tasks : Arrive(t, D) \/ Step(t)

\* Concurrency on one session: one declared stream, two chunk numbers.
DomMain ==
    [horizon       |-> ShortTime,
     init_ids      |-> {Some(1)},
     ids           |-> {1},
     init_reqs     |-> InitReqs({<<"resend">>}, {"stateful"}, {Some(<<"a">>)},
                                {None}, {None}, {None}),
     transmit_reqs |-> TransmitReqs({Some("a")}, {Some(0), Some(1)}, {None}),
     resend_reqs   |-> ResendReqs({"a"}, {<<1>>})]

Next == NextOver(DomMain)

Spec == Init /\ [][Next]_vars

\* Two sessions side by side.
DomTwo ==
    [horizon       |-> ShortTime,
     init_ids      |-> {Some(1), Some(2)},
     ids           |-> {1, 2},
     init_reqs     |-> InitReqs({<<>>}, {"stateful"}, {Some(<<"a">>)},
                                {None}, {None}, {None}),
     transmit_reqs |-> TransmitReqs({Some("a")}, {Some(0)}, {None}),
     resend_reqs   |-> ResendReqs({"a"}, {<<0>>})]

NextTwo == NextOver(DomTwo)

SpecTwo == Init /\ [][NextTwo]_vars

\* Time to live: sessions with TTL 1 and 0 (X-TTL is any integer), and a
\* clock that runs past the TTL.
DomTTL ==
    [horizon       |-> MaxTime,
     init_ids      |-> {Some(1)},
     ids           |-> {1},
     init_reqs     |-> InitReqs({<<"ttl">>}, {"stateful"}, {Some(<<"a">>)},
                                {Some(1), Some(0)}, {None}, {None}),
     transmit_reqs |-> TransmitReqs({Some("a")}, {Some(0)}, {None}),
     resend_reqs   |-> ResendReqs({"a"}, {<<0>>})]

NextTTL == NextOver(DomTTL)

SpecTTL == Init /\ [][NextTTL]_vars

\* Gaps: chunk numbers out of order and below zero (X-Packet-ID is any
\* integer) on one stream.
DomGap ==
    [horizon       |-> ShortTime,
     init_ids      |-> {Some(1)},
     ids           |-> {1},
     init_reqs     |-> InitReqs({<<>>}, {"stateful"}, {Some(<<"a">>)},
                                {None}, {None}, {None}),
     transmit_reqs |-> TransmitReqs({Some("a")}, {Some(-1), Some(3)}, {None}),
     resend_reqs   |-> ResendReqs({"a"}, {<<1, 2>>})]

NextGap == NextOver(DomGap)

SpecGap == Init /\ [][NextGap]_vars

\* Feature negotiation: supported and unsupported features, core asked for
\* explicitly, a feature asked for twice, an empty token, an unknown token.
DomFeat ==
    [horizon       |-> ShortTime,
     init_ids      |-> {Some(1)},
     ids           |-> {1},
     init_reqs     |-> InitReqs({<<"metrics", "resend">>,
                                 <<"core", "", "pull", "pull">>, <<"bogus">>},
                                {"stateful"}, {Some(<<"a">>)},
                                {None}, {None}, {None}),
     transmit_reqs |-> TransmitReqs({Some("a")}, {Some(0)}, {None}),
     resend_reqs   |-> ResendReqs({"a"}, {<<0>>})]

NextFeat == NextOver(DomFeat)

SpecFeat == Init /\ [][NextFeat]_vars

\* Failing chunk exchanges: a session not negotiated yet, an undeclared
\* stream, incomplete headers, and a TTL of 1 that runs out.
DomErr ==
    [horizon       |-> MaxTime,
     init_ids      |-> {Some(1)},
     ids           |-> {1},
     init_reqs     |-> InitReqs({<<"ttl">>}, {"stateful"}, {Some(<<"a">>)},
                                {Some(1)}, {None}, {None}),
     transmit_reqs |-> TransmitReqs({Some("a"), Some("b")}, {Some(0)}, {None})
                       \cup TransmitReqs({None}, {Some(0)}, {None})
                       \cup TransmitReqs({None}, {None}, {Some("pause")}),
     resend_reqs   |-> ResendReqs({"a"}, {<<0>>})]

NextErr == NextOver(DomErr)

SpecErr == Init /\ [][NextErr]_vars

\* Resend requests: a known and an unknown session, a declared and an
\* undeclared stream, an empty list and a list out of order with a repetition.
DomResend ==
    [horizon       |-> ShortTime,
     init_ids      |-> {Some(1)},
     ids           |-> {1, 2},
     init_reqs     |-> InitReqs({<<"resend">>}, {"stateful"}, {Some(<<"a">>)},
                                {None}, {None}, {None}),
     transmit_reqs |-> TransmitReqs({Some("a")}, {Some(0)}, {None}),
     resend_reqs   |-> ResendReqs({"a", "b"}, {<<>>, <<6, 5, 5>>})]

NextResend == NextOver(DomResend)

SpecResend == Init /\ [][NextResend]_vars

\* Chunk sizes: nothing negotiated, a chunk size above a maximum packet
\* size, and a chunk size of 0 (X-Chunk-Size is any integer).
DomSize ==
    [horizon       |-> ShortTime,
     init_ids      |-> {Some(1)},
     ids           |-> {1},
     init_reqs     |-> InitReqs({<<>>}, {"stateful"}, {Some(<<"a">>)},
                                {None}, {None}, {None, Some(0)})
                       \cup InitReqs({<<>>}, {"stateful"}, {Some(<<"a">>)},
                                     {None}, {Some(4)}, {Some(8)}),
     transmit_reqs |-> TransmitReqs({Some("a")}, {Some(0)}, {None}),
     resend_reqs   |-> ResendReqs({"a"}, {<<0>>})]

NextSize == NextOver(DomSize)

SpecSize == Init /\ [][NextSize]_vars

\* Creation under a caller-supplied identifier: with and without a TTL, one
\* or two declared streams (with an empty token between them), and a request
\* with an invalid session type.
DomNew ==
    [horizon       |-> ShortTime,
     init_ids      |-> {Some(1)},
     ids           |-> {1},
     init_reqs     |-> InitReqs({<<>>}, {"stateful"}, {Some(<<"a", "", "b">>)},
                                {None}, {None}, {None})
                       \cup InitReqs({<<>>}, {"stateless", "bogus"},
                                     {Some(<<"a">>)}, {Some(1)}, {None}, {None}),
     transmit_reqs |-> TransmitReqs({Some("a")}, {Some(0)}, {None}),
     resend_reqs   |-> ResendReqs({"a"}, {<<0>>})]

NextNew == NextOver(DomNew)

SpecNew == Init /\ [][NextNew]_vars

\* Resumption: negotiations under one identifier that differ in features,
\* session type, streams, TTL and sizes.
DomResume ==
    [horizon       |-> ShortTime,
     init_ids      |-> {Some(1)},
     ids           |-> {1},
     init_reqs     |-> InitReqs({<<"resend">>}, {"stateful"}, {Some(<<"a">>)},
                                {None}, {None}, {None})
                       \cup InitReqs({<<"pull">>}, {"stateless"},
                                     {Some(<<"a", "b">>)}, {Some(1)},
                                     {Some(4)}, {Some(8)}),
     transmit_reqs |-> TransmitReqs({Some("a")}, {Some(0)}, {None}),
     resend_reqs   |-> ResendReqs({"a"}, {<<0>>})]

NextResume == NextOver(DomResume)

SpecResume == Init /\ [][NextResume]_vars

\* Request shapes of a chunk exchange: every combination of X-Stream-ID,
\* X-Packet-ID and X-Stream-Control present or absent.
DomShape ==
    [horizon       |-> ShortTime,
     init_ids      |-> {Some(1)},
     ids           |-> {1},
     init_reqs     |-> InitReqs({<<>>}, {"stateful"}, {Some(<<"a">>)},
                                {None}, {None}, {None}),
     transmit_reqs |-> TransmitReqs({None, Some("a")}, {None, Some(0)},
                                    {None, Some("pause")}),
     resend_reqs   |-> ResendReqs({"a"}, {<<0>>})]

NextShape == NextOver(DomShape)

SpecShape == Init /\ [][NextShape]_vars

\* ======================================================================
\* Properties
\* ======================================================================

\* A chunk-addressed exchange: X-Stream-ID and X-Packet-ID, no X-Stream-Control.
ChunkRequest(task) ==
    /\ task.op = "transmit"
    /\ task.req.stream_control = None
    /\ task.req.stream_id # None
    /\ task.req.packet_id # None

\* The session is not expired at clock value t: no TTL, or at most ttl_seconds
\* since its creation.
NotExpiredAt(obj, t) ==
    obj.ttl_seconds = None \/ (t - obj.created_at) <= obj.ttl_seconds[1]

Received(h, ref, sid) == h[ref].streams[sid].received_chunks

\* Task t is past the mutation of its chunk exchange and has not answered yet.
Recorded(t) ==
    ChunkRequest(tasks[t]) /\ tasks[t].pc \in {"update_acq", "update"}

\* C1 (no lost update).  In every step: (a) no chunk number leaves a received
\* set of any session object; (b) a chunk exchange that finds an existing,
\* non-expired session and a declared stream goes on to record its chunk; (c)
\* when it answers, the answer is 209, its chunk number is in the stream's
\* received set and the store holds that session under its id.  So of two
\* exchanges on the same session and stream, interleaved in any way, both
\* succeed and both numbers are in the set once both have answered.
C1_NoLostUpdate ==
    [][ /\ \A r \in 1..Len(heap) : \A sid \in DOMAIN heap[r].streams :
              Received(heap, r, sid) \subseteq Received(heap', r, sid)
        /\ \A t \in Tasks :
              LET task == tasks[t]
                  sid  == task.req.stream_id[1]
                  pid  == task.req.packet_id[1]
              IN  /\ ( /\ ChunkRequest(task) /\ task.pc = "handle"
                       /\ tasks'[t] # task
                       /\ task.ref # NoRef
                       /\ sid \in DOMAIN heap[task.ref].streams
                       /\ NotExpiredAt(heap[task.ref], now) )
                     => /\ tasks'[t].pc = "update_acq"
                        /\ pid \in Received(heap', task.ref, sid)
                  /\ ( /\ ChunkRequest(task) /\ task.pc = "update"
                       /\ tasks'[t] # task )
                     => /\ out'.resp.code = 209
                        /\ out'.req = task.req
                        /\ pid \in Received(heap', task.ref, sid)
                        /\ StoreGet(store', task.id[1]) = task.ref
      ]_vars

\* Two exchanges on the same session object and stream with different chunk
\* numbers have both recorded their chunk and neither has answered yet.
C1_Witness ==
    \E t, u \in Tasks :
        /\ t # u /\ Recorded(t) /\ Recorded(u)
        /\ tasks[t].ref = tasks[u].ref
        /\ tasks[t].req.stream_id = tasks[u].req.stream_id
        /\ tasks[t].req.packet_id # tasks[u].req.packet_id
        /\ {tasks[t].req.packet_id[1], tasks[u].req.packet_id[1]}
               \subseteq Received(heap, tasks[t].ref, tasks[t].req.stream_id[1])

\* Task t is between its initial store read and its final store write/return.
InReadModifyWrite(t) ==
    tasks[t].pc \in {"handle", "create_acq", "create", "update_acq", "update"}

WaitsForStore(t) == tasks[t].pc \in {"get_acq", "create_acq", "update_acq"}

OutObj == heap[out.ref]

\* The answer is to a chunk-addressed exchange that found its session and
\* named a declared stream.
OutChunkOnDeclared ==
    /\ ChunkRequest(out)
    /\ out.ref # NoRef
    /\ out.req.stream_id[1] \in DOMAIN OutObj.streams

\* The answer is to a status query that found its session.
OutStatus == out.op = "status" /\ out.ref # NoRef

\* C4 (expiry).  For a session with a TTL set, once more than the TTL has
\* elapsed since its creation, a chunk-addressed exchange on a declared stream
\* fails with 410 Expired, and a status query succeeds and reports
\* alive = false.
C4_ExpiredAfterTTL ==
    ( /\ out.ref # NoRef
      /\ OutObj.ttl_seconds # None
      /\ (out.at - OutObj.created_at) > OutObj.ttl_seconds[1] )
    => /\ OutChunkOnDeclared => out.resp.code = 410
       /\ OutStatus => (out.resp.code = 200 /\ out.resp.data.alive = FALSE)

\* alive as stated: true without a TTL, else
\* (now - created_at) <= ttl_seconds.
AliveAt(obj, t) ==
    IF obj.ttl_seconds = None THEN TRUE
    ELSE (t - obj.created_at) <= obj.ttl_seconds[1]

\* C5 (one liveness computation).  A status query reports alive = true exactly
\* when a chunk-addressed exchange at the same instant does not fail with
\* Expired, and alive is true without a TTL and (now - created_at) <=
\* ttl_seconds otherwise, for every TTL value.
C5_AliveMatchesExpiry ==
    /\ OutStatus =>
          /\ out.resp.data.alive = ~TransmitExpired(OutObj, out.at)
          /\ out.resp.data.alive = AliveAt(OutObj, out.at)
    /\ OutChunkOnDeclared =>
          /\ (out.resp.code # 410) = StatusAlive(OutObj, out.at)
          /\ (out.resp.code # 410) = AliveAt(OutObj, out.at)

IsAscending(seq) == \A i, j \in 1..Len(seq) : i < j => seq[i] < seq[j]

\* A report of one stream is the missing report of the received set S:
\* received is the ascending duplicate-free list of S; missing is empty when S
\* is empty and otherwise the ascending list of exactly the integers of
\* [0, max S] that are not in S; total is unknown.
IsMissingReport(rep, S) ==
    /\ IsAscending(rep.received) /\ SeqToSet(rep.received) = S
    /\ IsAscending(rep.missing)
    /\ SeqToSet(rep.missing) =
          IF S = {} THEN {}
          ELSE {i \in 0..SetMax(S) : i \notin S}
    /\ rep.total = None

\* The chunk numbers recorded in this step on stream sid of object r.
RecordedNow(r, sid) ==
    {tasks[t].req.packet_id[1] :
        t \in {u \in Tasks : /\ ChunkRequest(tasks[u])
                             /\ tasks[u].pc = "handle"
                             /\ tasks'[u].pc = "update_acq"
                             /\ tasks[u].ref = r
                             /\ tasks[u].req.stream_id[1] = sid}}

\* C6 (missing report).  The received set of a stream starts empty and changes
\* only by a successful chunk exchange adding its chunk number (a duplicate
\* changes nothing); and every status answer reports, for every stream, the
\* missing report of the received set as it is then.
C6_MissingReport ==
    [][ /\ \A r \in 1..Len(heap') : \A sid \in DOMAIN heap'[r].streams :
              Received(heap', r, sid) =
                  IF r <= Len(heap)
                  THEN Received(heap, r, sid) \cup RecordedNow(r, sid)
                  ELSE {}
        /\ (out'.op = "status" /\ out'.ref # NoRef) =>
              /\ out'.resp.code = 200
              /\ DOMAIN out'.resp.data.streams = DOMAIN heap'[out'.ref].streams
              /\ \A sid \in DOMAIN heap'[out'.ref].streams :
                    IsMissingReport(out'.resp.data.streams[sid],
                                    Received(heap', out'.ref, sid))
      ]_vars

\* A status answer after chunks 3 and -1 were recorded: received is [-1, 3]
\* and missing is [0, 1, 2].
C6_Witness ==
    /\ OutStatus
    /\ out.resp.data.streams["a"].received = <<-1, 3>>
    /\ out.resp.data.streams["a"].missing = <<0, 1, 2>>

\* ---------------------------------------------------------------------- C7
\* The features enabled on the session at heap address ref, and the features
\* asked for by the request that constructed it.
EnabledOf(ref) == SeqToSet(heap[ref].features_enabled)

RequestedOf(ref) == SeqToSet(requested[ref])

\* C7: the enabled features of every stored session contain core; every other
\* enabled feature was requested by the negotiation that created the session
\* and is in the supported set; every requested feature of the supported set
\* is enabled.
C7_EnabledFeatures ==
    \A id \in DOMAIN store :
        /\ "core" \in EnabledOf(store[id])
        /\ EnabledOf(store[id]) \ {"core"}
               \subseteq RequestedOf(store[id]) \cap supported_features_for_poc
        /\ RequestedOf(store[id]) \cap supported_features_for_poc
               \subseteq EnabledOf(store[id])

\* A stored session created by a request for metrics and resend: resend is
\* enabled next to core, metrics is not.
C7_Witness ==
    \E id \in DOMAIN store :
        /\ RequestedOf(store[id]) = {"metrics", "resend"}
        /\ heap[store[id]].features_enabled = <<"core", "resend">>

\* ---------------------------------------------------------------------- C8
\* This step is taken by task t while it handles a chunk exchange.
TransmitStep(t) == tasks[t].op = "transmit" /\ tasks'[t] # tasks[t]

\* This step ends the chunk exchange of task t with one of the codes.
TransmitEnds(t, codes) ==
    /\ TransmitStep(t)
    /\ tasks'[t] = IdleTask
    /\ out'.resp.code \in codes

\* C8: a chunk exchange that fails (404 NotFound, 400 InvalidRequest, 410
\* Expired) leaves every stored session unchanged.  The step that fails
\* changes no session object and no store entry; a step of a chunk exchange
\* that does change one is the recording step, which comes after the stream
\* and TTL checks and leads to the update, or the update itself, which is
\* answered with 209.
C8_FailureLeavesSessions ==
    [][\A t \in Tasks :
        /\ TransmitEnds(t, {404, 400, 410}) => UNCHANGED <<heap, store>>
        /\ (TransmitStep(t) /\ <<heap, store>>' # <<heap, store>>)
              => \/ tasks[t].pc = "handle" /\ tasks'[t].pc = "update_acq"
                 \/ tasks[t].pc = "update" /\ TransmitEnds(t, {209})
        /\ (TransmitStep(t) /\ tasks[t].pc \in {"update_acq", "update"})
              => \/ tasks'[t].pc = "update"
                 \/ TransmitEnds(t, {209})]_vars

\* A chunk exchange on a declared stream has just failed with 410 Expired on
\* a session that holds no chunk.
C8_Witness ==
    /\ OutChunkOnDeclared
    /\ out.resp.code = 410
    /\ Received(heap, out.ref, out.req.stream_id[1]) = {}

\* ---------------------------------------------------------------------- C9
\* This step is taken by task t while it handles a resend request.
ResendStep(t) == tasks[t].op = "resend" /\ tasks'[t] # tasks[t]

\* C9: a resend request fails with 404 NotFound if its session identifier is
\* not in the store when it is looked up, fails with 400 InvalidRequest if the
\* stream is not declared on the session found, and is otherwise answered
\* with 200 and the requested chunk list as it was sent.
C9_Resend ==
    [][\A t \in Tasks :
        /\ (ResendStep(t) /\ tasks[t].pc = "get")
              => (tasks'[t].ref = NoRef) = (tasks[t].id[1] \notin DOMAIN store)
        /\ (ResendStep(t) /\ tasks[t].pc = "handle")
              => /\ tasks'[t] = IdleTask
                 /\ out'.req = tasks[t].req
                 /\ IF tasks[t].ref = NoRef
                    THEN out'.resp.code = 404
                    ELSE IF tasks[t].req.stream
                              \notin DOMAIN heap[tasks[t].ref].streams
                    THEN out'.resp.code = 400
                    ELSE /\ out'.resp.code = 200
                         /\ out'.resp.data.chunks_queued = tasks[t].req.chunks]_vars

\* A resend request for chunks 6, 5, 5 of a declared stream has been
\* acknowledged.
C9_Witness ==
    /\ out.op = "resend"
    /\ out.ref # NoRef
    /\ out.req.stream \in DOMAIN OutObj.streams
    /\ out.req.chunks = <<6, 5, 5>>
    /\ out.resp.code = 200

\* --------------------------------------------------------------------- C10
\* The effective chunk size as stated: the negotiated chunk size if present,
\* else the default, replaced by the negotiated maximum packet size when one
\* is present and smaller.
StatedChunkSize(obj) ==
    LET size == IF obj.chunk_size # None THEN obj.chunk_size[1]
                ELSE DefaultChunkSize
    IN  IF obj.max_packet_size # None /\ obj.max_packet_size[1] < size
        THEN obj.max_packet_size[1]
        ELSE size

\* C10: on every successful chunk-addressed exchange the payload length
\* equals the effective chunk size.
C10_PayloadLength ==
    (OutChunkOnDeclared /\ out.resp.code = 209)
        => out.resp.data.content_length = StatedChunkSize(OutObj)

\* --------------------------------------------------------------------- C11
\* The session object as a negotiation at clock value t with identifier id
\* and request req constructs it: stored id, both timestamps t, one stream
\* with an empty received set per declared stream.
IsFresh(obj, id, req, t) ==
    /\ obj.id = id
    /\ obj.created_at = t /\ obj.last_received_time = t
    /\ DOMAIN obj.streams = {s \in SeqToSet(req.streams[1]) : s # ""}
    /\ \A sid \in DOMAIN obj.streams : obj.streams[sid].received_chunks = {}

\* This step is taken by task t while it handles a negotiation whose
\* storage.get found nothing.
CreationStep(t) ==
    /\ tasks[t].op = "init" /\ tasks'[t] # tasks[t]
    /\ tasks[t].ref = NoRef \/ tasks[t].pc \in {"create_acq", "create"}

\* C11: a negotiation with a caller-supplied identifier that is not in the
\* store constructs a session with both timestamps at the negotiation time and
\* every declared stream empty, and stores that session, still as constructed,
\* under exactly that identifier; no identifier ever leaves the store, a
\* status query for a stored identifier finds the session, and a status answer
\* reports alive = true when the session has no TTL or its TTL has not elapsed.
C11_CreateThenStatus ==
    [][ /\ \A t \in Tasks :
            /\ (CreationStep(t) /\ tasks[t].pc = "get")
                  => (tasks'[t].ref = NoRef) = (tasks[t].id[1] \notin DOMAIN store)
            /\ (CreationStep(t) /\ tasks[t].pc = "handle")
                  => /\ tasks'[t].pc = "create_acq"
                     /\ tasks'[t].ref = Len(heap) + 1
                     /\ IsFresh(heap'[tasks'[t].ref], tasks[t].id[1],
                                tasks[t].req, now)
            /\ (CreationStep(t) /\ tasks[t].pc = "create")
                  => /\ DOMAIN store' = DOMAIN store \cup {tasks[t].id[1]}
                     /\ store'[tasks[t].id[1]] = tasks[t].ref
                     /\ IsFresh(heap'[tasks[t].ref], tasks[t].id[1], tasks[t].req,
                                heap[tasks[t].ref].created_at)
                     /\ out'.resp.code = 200
                     /\ out'.resp.data.transmission_id = tasks[t].id[1]
            /\ (tasks[t].op = "status" /\ tasks[t].pc = "get"
                   /\ tasks'[t] # tasks[t] /\ tasks[t].id[1] \in DOMAIN store)
                  => tasks'[t].ref = store[tasks[t].id[1]]
        /\ DOMAIN store \subseteq DOMAIN store'
        /\ (out'.op = "status" /\ out'.ref # NoRef
               /\ NotExpiredAt(heap'[out'.ref], out'.at))
              => (out'.resp.code = 200 /\ out'.resp.data.alive = TRUE)
      ]_vars

\* A status query has just reported alive = true for a session created under
\* identifier 1 with a TTL of 1, one second after its creation.
C11_Witness ==
    /\ OutStatus
    /\ out.id = Some(1) /\ StoreGet(store, 1) = out.ref
    /\ OutObj.ttl_seconds = Some(1)
    /\ out.at - OutObj.created_at = 1
    /\ out.resp.data.alive = TRUE

\* --------------------------------------------------------------------- C12
\* Two session values differ at most in the last-activity timestamp.
SameButActivity(a, b) ==
    [a EXCEPT !.last_received_time = 0] = [b EXCEPT !.last_received_time = 0]

\* This step is taken by task t while it handles a negotiation whose
\* storage.get found a session (a resumption).
ResumptionStep(t) ==
    /\ tasks[t].op = "init" /\ tasks'[t] # tasks[t]
    /\ tasks[t].ref # NoRef
    /\ tasks[t].pc \in {"handle", "update_acq", "update"}

ReadOnlyOp(task) ==
    \/ task.op \in {"status", "resend"}
    \/ task.op = "transmit" /\ task.req.stream_control # None

\* C13: the stored state of a session changes only by a negotiation or by a
\* chunk-addressed exchange that succeeds; every step of a stream-control
\* directive, of a resend request and of a status query, from its arrival to
\* its answer, leaves every session object and every store entry unchanged.
C13_ReadOnlyOps ==
    [][ /\ \A t \in Tasks :
              ( /\ tasks'[t] # tasks[t]
                /\ ReadOnlyOp(tasks[t]) \/ ReadOnlyOp(tasks'[t]) )
                 => UNCHANGED <<heap, store>>
        /\ <<heap, store>>' # <<heap, store>>
              => \E t \in Tasks :
                    /\ tasks'[t] # tasks[t]
                    /\ \/ tasks[t].op = "init" \/ tasks'[t].op = "init"
                       \/ /\ ChunkRequest(tasks[t])
                          /\ \/ tasks'[t].pc = "update_acq"
                             \/ tasks[t].pc = "update" /\ out'.resp.code = 209
      ]_vars

\* A stream-control directive has just been acknowledged on a session that
\* holds a chunk and whose last activity lies in the past.
C13_Witness ==
    /\ out.op = "transmit" /\ out.req.stream_control # None
    /\ out.ref # NoRef /\ out.resp.code = 200
    /\ OutObj.streams["a"].received_chunks = {0}
    /\ OutObj.last_received_time < now

\* --------------------------------------------------------------------- C14
\* The fields a request without a directive and without a complete pair is
\* told to be missing.
MissingFields(req) ==
    IF req.stream_id = None /\ req.packet_id = None
    THEN <<"either (X-Stream-ID and X-Packet-ID) or (X-Stream-Control)">>
    ELSE IF req.stream_id = None THEN <<"X-Stream-ID">> ELSE <<"X-Packet-ID">>

\* C14: a chunk-exchange request on a known session is accepted (200 or 209)
\* only if it supplies exactly one of a stream-control directive and a
\* complete (stream id, chunk number) pair; with no directive and no complete
\* pair it fails with 400 naming the missing fields; with both a directive and
\* a complete pair it is not accepted.
C14_ExactlyOneShape ==
    (out.op = "transmit" /\ out.ref # NoRef) =>
        LET directive == out.req.stream_control # None
            pair      == out.req.stream_id # None /\ out.req.packet_id # None
        IN  /\ out.resp.code \in {200, 209} => (directive # pair)
            /\ (~directive /\ ~pair) =>
                  /\ out.resp.code = 400
                  /\ out.resp.detail = "invalid_headers"
                  /\ out.resp.data = MissingFields(out.req)
            /\ (directive /\ pair) => out.resp.code \notin {200, 209}

\* --------------------------------------------------------------------- C15
\* C15: the TTL of every stored session is absent or a positive number of
\* seconds, whatever TTL the negotiation requests carried.
C15_PositiveTTL ==
    \A id \in DOMAIN store :
        \/ heap[store[id]].ttl_seconds = None
        \/ heap[store[id]].ttl_seconds[1] > 0

StoreWrite(id) ==
    \E t \in Tasks :
        /\ tasks[t].pc \in {"create", "update"}
        /\ tasks'[t] # tasks[t]
        /\ tasks[t].id = Some(id)

\* C19: what storage.get returns does not alias storage: the session a get or
\* a status read of an identifier observes changes only in a step that
\* completes a create or an update for that identifier, never in the step in
\* which a caller mutates the session it got.
C19_NoAliasing ==
    [][\A id \in DOMAIN store :
          heap'[StoreGet(store', id)] # heap[StoreGet(store, id)]
             => StoreWrite(id)]_vars

\* --------------------------------------------------------------------- C20
\* The answer is a successful negotiation response.
OutInit == out.op = "init" /\ out.resp.code = 200

\* C20: a negotiation response describes the stored session: the enabled
\* features it returns are those of the session stored under the returned
\* identifier, and every stream it echoes as accepted is a declared stream of
\* that session, for creation and for resumption.
C20_ResponseDescribesSession ==
    OutInit =>
        LET obj == heap[StoreGet(store, out.resp.data.transmission_id)]
        IN  /\ SeqToSet(out.resp.data.features_enabled)
                  = SeqToSet(obj.features_enabled)
            /\ out.resp.data.accepted_streams # None
                  => SeqToSet(out.resp.data.accepted_streams[1])
                        \subseteq DOMAIN obj.streams

\* --------------------------------------------------------------------- C21
\* This step is the one in which the chunk exchange of task t passes the
\* stream and TTL checks and records its chunk; the exchange is then answered
\* with 209.
PassesExpiryCheck(t) ==
    /\ ChunkRequest(tasks[t])
    /\ tasks[t].pc = "handle"
    /\ tasks'[t].pc = "update_acq"

TTLElapsed(obj, t) ==
    /\ obj.ttl_seconds # None
    /\ (t - obj.created_at) > obj.ttl_seconds[1]

\* Task t holds a session whose TTL has elapsed, and this step ends its
\* request with a response.
AnswersOnElapsed(t) ==
    /\ tasks[t].pc = "handle"
    /\ tasks[t].ref # NoRef
    /\ TTLElapsed(heap[tasks[t].ref], now)
    /\ tasks'[t] = IdleTask

\* C22 (expiry gates only chunk exchanges on declared streams).  On a session
\* whose TTL has elapsed: a stream-control directive is acknowledged with
\* 200; a resend request for a declared stream is accepted with 200 and the
\* chunk numbers it listed; a chunk exchange naming an undeclared stream fails
\* with 400 for the stream, not with 410.
C22_ExpiryGatesOnlyChunks ==
    [][\A t \in Tasks :
          AnswersOnElapsed(t) =>
             LET task == tasks[t]
                 obj  == heap[task.ref]
             IN  /\ (task.op = "transmit" /\ task.req.stream_control # None)
                       => /\ out'.resp.code = 200
                          /\ out'.resp.detail = "stream_control"
                 /\ (task.op = "resend" /\ task.req.stream \in DOMAIN obj.streams)
                       => /\ out'.resp.code = 200
                          /\ out'.resp.data.chunks_queued = task.req.chunks
                 /\ (ChunkRequest(task)
                        /\ task.req.stream_id[1] \notin DOMAIN obj.streams)
                       => /\ out'.resp.code = 400
                          /\ out'.resp.detail = "stream_not_found"]_vars

\* A chunk exchange naming the undeclared stream b has just been answered
\* with 400 on a session whose TTL has elapsed and on whose identifier a
\* chunk exchange on the declared stream was answered 410 before.
C22_Witness ==
    /\ out.op = "transmit"
    /\ out.ref # NoRef
    /\ out.req.stream_id = Some("b")
    /\ out.req.packet_id # None
    /\ TTLElapsed(OutObj, now)
    /\ out.id[1] \in expired
    /\ out.resp.code = 400

====
